---------------------------- MODULE Spec2Model ----------------------------
(***************************************************************************)
(* Model of py_limpa_links-extensao.py (class FileRenamer): the filename   *)
(* cleaner, the rename planner, the applier and the reference rewrite.     *)
(* A string is a sequence of one-character strings, so that splitting,     *)
(* filtering and substring replacement are computed as the code does.      *)
(***************************************************************************)
EXTENDS Integers, Sequences, FiniteSets, TLC

(***************************************************************************)
(* Bounds of the model.                                                    *)
(***************************************************************************)
MaxLen == 4
MaxFiles == 3
MaxLinks == 1
MaxLocs == 1
MaxVanish == 1

(***************************************************************************)
(* Characters.                                                             *)
(***************************************************************************)
Lower == <<"a","b","c","d","e","f","g","h","i","j","k","l","m",
           "n","o","p","q","r","s","t","u","v","w","x","y","z">>
Upper == <<"A","B","C","D","E","F","G","H","I","J","K","L","M",
           "N","O","P","Q","R","S","T","U","V","W","X","Y","Z">>
Digits == {"0","1","2","3","4","5","6","7","8","9"}
Whitespace == {" ", "\t", "\n", "\r"}
\* U+0301, the combining acute accent that NFD splits off an accented letter
COMBINING_ACUTE == "U+0301"

IsLower(c) == \E i \in 1..Len(Lower) : Lower[i] = c
IsUpper(c) == \E i \in 1..Len(Upper) : Upper[i] = c

\* unicodedata.combining(c) != 0
combining(c) == c = COMBINING_ACUTE

\* unicodedata.normalize('NFD', c) of one character; an accented letter is written
\* by its entity name ("Aacute" is U+00C1)
NFD(c) ==
  CASE c = "Aacute" -> <<"A", COMBINING_ACUTE>>
    [] c = "aacute" -> <<"a", COMBINING_ACUTE>>
    [] c = "Eacute" -> <<"E", COMBINING_ACUTE>>
    [] c = "eacute" -> <<"e", COMBINING_ACUTE>>
    [] c = "oacute" -> <<"o", COMBINING_ACUTE>>
    [] OTHER -> <<c>>

\* str.lower() of one character (applied only to ASCII in this program)
LowerChar(c) ==
  IF IsUpper(c) THEN Lower[CHOOSE i \in 1..Len(Upper) : Upper[i] = c] ELSE c

(***************************************************************************)
(* String helpers.                                                         *)
(***************************************************************************)
RECURSIVE Flatten(_)
Flatten(ss) == IF ss = <<>> THEN <<>> ELSE Head(ss) \o Flatten(Tail(ss))

\* index of the last occurrence of c in s, 0 when there is none (rfind + 1)
RECURSIVE RFind(_, _)
RFind(s, c) ==
  IF s = <<>> THEN 0
  ELSE IF s[Len(s)] = c THEN Len(s)
  ELSE RFind(SubSeq(s, 1, Len(s) - 1), c)

\* s.startswith(p) at position i
MatchAt(s, p, i) ==
  /\ i + Len(p) - 1 <= Len(s)
  /\ \A k \in 1..Len(p) : s[i + k - 1] = p[k]

\* p in s
Contains(s, p) == \E i \in 1..(Len(s) - Len(p) + 1) : MatchAt(s, p, i)

\* s.endswith(p)
EndsWith(s, p) == Len(p) <= Len(s) /\ MatchAt(s, p, Len(s) - Len(p) + 1)

\* s.replace(old, new): every non-overlapping occurrence, left to right
RECURSIVE Replace(_, _, _)
Replace(s, old, new) ==
  IF s = <<>> \/ old = <<>> THEN s
  ELSE IF MatchAt(s, old, 1)
       THEN new \o Replace(SubSeq(s, Len(old) + 1, Len(s)), old, new)
       ELSE <<Head(s)>> \o Replace(Tail(s), old, new)

(***************************************************************************)
(* FileRenamer.remove_accents and FileRenamer.clean_filename.              *)
(***************************************************************************)
remove_accents(text) ==
  LET nfd == Flatten([i \in 1..Len(text) |-> NFD(text[i])])
  IN  SelectSeq(nfd, LAMBDA c : ~combining(c))

\* os.path.splitext (genericpath._splitext with sep '/'): a pair <<root, ext>>
RECURSIVE OnlyDots(_, _, _)
OnlyDots(p, from, to) ==
  IF from >= to THEN TRUE
  ELSE IF p[from] # "." THEN FALSE
  ELSE OnlyDots(p, from + 1, to)

splitext(p) ==
  LET sepIndex == RFind(p, "/")
      dotIndex == RFind(p, ".")
  IN  IF dotIndex > sepIndex /\ ~OnlyDots(p, sepIndex + 1, dotIndex)
      THEN <<SubSeq(p, 1, dotIndex - 1), SubSeq(p, dotIndex, Len(p))>>
      ELSE <<p, <<>>>>

\* re.sub(r'\s+', '-', name)
RECURSIVE SubWhitespace(_)
SubWhitespace(s) ==
  IF s = <<>> THEN <<>>
  ELSE IF Head(s) \in Whitespace
       THEN IF Len(s) > 1 /\ s[2] \in Whitespace
            THEN SubWhitespace(Tail(s))
            ELSE <<"-">> \o SubWhitespace(Tail(s))
       ELSE <<Head(s)>> \o SubWhitespace(Tail(s))

\* the characters kept by re.sub(r'[^a-zA-Z0-9\-_]', '', name)
FilenameChar(c) == IsLower(c) \/ IsUpper(c) \/ c \in Digits \/ c \in {"-", "_"}

\* re.sub(r'-+', '-', name)
RECURSIVE CollapseHyphens(_)
CollapseHyphens(s) ==
  IF s = <<>> THEN <<>>
  ELSE IF Head(s) = "-" /\ Len(s) > 1 /\ s[2] = "-"
       THEN CollapseHyphens(Tail(s))
       ELSE <<Head(s)>> \o CollapseHyphens(Tail(s))

\* a mutation of StripHyphens: only the leading hyphens go (lstrip for strip)
RECURSIVE StripLeadingHyphens(_)
StripLeadingHyphens(s) ==
  IF s # <<>> /\ Head(s) = "-" THEN StripLeadingHyphens(Tail(s)) ELSE s

\* name.strip('-')
RECURSIVE StripHyphens(_)
StripHyphens(s) ==
  IF s = <<>> THEN <<>>
  ELSE IF Head(s) = "-" THEN StripHyphens(Tail(s))
  ELSE IF s[Len(s)] = "-" THEN StripHyphens(SubSeq(s, 1, Len(s) - 1))
  ELSE s

\* name.lower()
lower(s) == [i \in 1..Len(s) |-> LowerChar(s[i])]

clean_filename(filename) ==
  LET parts == splitext(filename)
      n1 == remove_accents(parts[1])
      n2 == SubWhitespace(n1)
      n3 == SelectSeq(n2, FilenameChar)
      n4 == CollapseHyphens(n3)
      n5 == StripHyphens(n4)
      n6 == lower(n5)
  IN  n6 \o parts[2]

(***************************************************************************)
(* LinkCleaner.clean_special_characters and LinkCleaner.clean_url of       *)
(* py_limpa_links.py, the rules the links are cleaned by.                  *)
(***************************************************************************)
\* urllib.parse.unquote, for the escapes of the characters of this model
unquote(url) ==
  Replace(Replace(Replace(url, <<"%", "2", "0">>, <<" ">>),
                  <<"%", "2", "1">>, <<"!">>),
          <<"%", "2", "D">>, <<"-">>)

\* the characters kept by re.sub(r'[^a-zA-Z0-9\-\._/]', '', text)
UrlChar(c) ==
  IsLower(c) \/ IsUpper(c) \/ c \in Digits \/ c \in {"-", ".", "_", "/"}

clean_special_characters(text) ==
  StripHyphens(CollapseHyphens(SelectSeq(SubWhitespace(text), UrlChar)))

clean_url(url) ==
  lower(clean_special_characters(remove_accents(unquote(url))))


(***************************************************************************)
(* The folder: file names, anchors of index.html, loc elements of          *)
(* sitemap.xml that the initial states are drawn from.                     *)
(***************************************************************************)
HTML == <<".", "h", "t", "m", "l">>
INDEX_HTML == <<"i", "n", "d", "e", "x">> \o HTML
SITEMAP_XML == <<"s", "i", "t", "e", "m", "a", "p", ".", "x", "m", "l">>

Names ==
  { <<"Aacute">> \o HTML, <<"A">> \o HTML, <<"a", "!">> \o HTML, <<"a">> \o HTML,
    <<"a", "-", "2">> \o HTML, <<"A", "A">> \o HTML }

\* an anchor <a href=...>: the quote character of the attribute and its value
Anchors ==
  << [quote |-> "\"", href |-> <<"Aacute">> \o HTML],
     [quote |-> "'",  href |-> <<"A">> \o HTML],
     [quote |-> "\"", href |-> <<".", "/", "Aacute">> \o HTML] >>

\* a loc element: whether it is in the sitemap namespace, and its text
Locs ==
  << [ns |-> TRUE,  text |-> <<"u", "/", "A", "A">> \o HTML],
     [ns |-> TRUE,  text |-> <<"u", "/", "a">> \o HTML],
     [ns |-> FALSE, text |-> <<"u", "/", "A">> \o HTML] >>

\* the elements of list at the positions in keep, in the order of list
RECURSIVE Pick(_, _, _)
Pick(list, keep, i) ==
  IF i > Len(list) THEN <<>>
  ELSE (IF i \in keep THEN <<list[i]>> ELSE <<>>) \o Pick(list, keep, i + 1)

\* the documents with at most n of the elements of list
Documents(list, n) ==
  {Pick(list, keep, 1) : keep \in {k \in SUBSET (1..Len(list)) : Cardinality(k) <= n}}

SeqsUpTo(S, n) == UNION {[1..k -> S] : k \in 0..n}
Range(f) == {f[i] : i \in DOMAIN f}
Perms(S) == {p \in [1..Cardinality(S) -> S] : Range(p) = S}

(***************************************************************************)
(* Reference scanner.                                                      *)
(***************************************************************************)
\* index of the first occurrence of c in s, Len(s) + 1 when there is none
RECURSIVE Find(_, _)
Find(s, c) ==
  IF s = <<>> THEN 1
  ELSE IF Head(s) = c THEN 1
  ELSE 1 + Find(Tail(s), c)

\* urlparse(url).path for a url with no scheme, netloc or params: the text
\* before the fragment and the query
UrlPath(url) ==
  LET noFragment == SubSeq(url, 1, Find(url, "#") - 1)
  IN  SubSeq(noFragment, 1, Find(noFragment, "?") - 1)

\* os.path.basename
basename(p) == SubSeq(p, RFind(p, "/") + 1, Len(p))

\* the filename a link adds to referenced_files, <<>> when it adds none
LinkFilename(url) ==
  IF url # <<>> /\ EndsWith(url, HTML)
  THEN LET filename == basename(UrlPath(url))
       IN  IF filename # <<>> /\ filename # INDEX_HTML THEN filename ELSE <<>>
  ELSE <<>>

extract_links_from_index(exists, doc) ==
  IF exists
  THEN {LinkFilename(doc[i].href) : i \in 1..Len(doc)} \ {<<>>}
  ELSE {}

extract_links_from_sitemap(exists, doc) ==
  IF exists
  THEN LET withNs == {LinkFilename(doc[i].text) : i \in {j \in 1..Len(doc) : doc[j].ns}} \ {<<>>}
           without == {LinkFilename(doc[i].text) : i \in {j \in 1..Len(doc) : ~doc[j].ns}} \ {<<>>}
       IN  IF withNs # {} THEN withNs ELSE without
  ELSE {}

(***************************************************************************)
(* Rename planner.  rename_map is the dict in insertion order; its key,    *)
(* str(folder / old_name), is represented by old_name.                     *)
(***************************************************************************)
\* a mutation of HasKey: no key is ever found in the dict
HasKeyNever(map, key) == FALSE

\* str(path) in self.rename_map
HasKey(map, key) == \E i \in 1..Len(map) : map[i].old_name = key

\* self.rename_map[key] = entry
DictSet(map, entry) ==
  IF HasKey(map, entry.old_name)
  THEN [i \in 1..Len(map) |-> IF map[i].old_name = entry.old_name THEN entry ELSE map[i]]
  ELSE Append(map, entry)

\* a mutation of NeedsRename: a file is planned whether or not cleaning changes its name
NeedsRenameAlways(name, cleaned_name) == TRUE

\* "referenced_file != cleaned_name", "current_name != cleaned_name"
NeedsRename(name, cleaned_name) == name # cleaned_name

\* the filenames a link of the bounded documents can name
LinkNames ==
  ({LinkFilename(Anchors[i].href) : i \in 1..Len(Anchors)}
     \cup {LinkFilename(Locs[i].text) : i \in 1..Len(Locs)}) \ {<<>>}

\* self.clean_filename(name) for every filename the planner can meet, computed once
cleaned_names == [name \in Names \cup LinkNames |-> clean_filename(name)]

\* the loop over all_referenced, in the iteration order refs
RECURSIVE AddReferenced(_, _, _)
AddReferenced(map, refs, files) ==
  IF refs = <<>> THEN map
  ELSE LET referenced_file == Head(refs)
           cleaned_name == cleaned_names[referenced_file]
           next == IF referenced_file \in files /\ NeedsRename(referenced_file, cleaned_name)
                   THEN DictSet(map, [old_name |-> referenced_file,
                                      new_name |-> cleaned_name,
                                      referenced |-> TRUE])
                   ELSE map
       IN  AddReferenced(next, Tail(refs), files)

\* the loop over self.html_files
RECURSIVE AddPhysical(_, _)
AddPhysical(map, files) ==
  IF files = <<>> THEN map
  ELSE LET current_name == Head(files)
           cleaned_name == cleaned_names[current_name]
           next == IF NeedsRename(current_name, cleaned_name) /\ ~HasKey(map, current_name)
                   THEN DictSet(map, [old_name |-> current_name,
                                      new_name |-> cleaned_name,
                                      referenced |-> FALSE])
                   ELSE map
       IN  AddPhysical(next, Tail(files))

\* refs: all_referenced in iteration order; listing: the glob in its order
\* existing: the names for which original_path.exists()
create_rename_map(refs, listing, existing) ==
  AddPhysical(AddReferenced(<<>>, refs, existing), listing)

\* new_names after the first n entries: the old_name that first took new_name
FirstWith(map, n, new_name) ==
  LET i == CHOOSE i \in 1..n :
             /\ map[i].new_name = new_name
             /\ \A j \in 1..(i - 1) : map[j].new_name # new_name
  IN  map[i].old_name

RECURSIVE ConflictsUpTo(_, _)
ConflictsUpTo(map, n) ==
  IF n = 0 THEN <<>>
  ELSE LET before == ConflictsUpTo(map, n - 1)
           new_name == map[n].new_name
       IN  IF \E j \in 1..(n - 1) : map[j].new_name = new_name
           THEN Append(before,
                       [new_name |-> new_name,
                        conflicting_files |-> <<FirstWith(map, n - 1, new_name),
                                                map[n].old_name>>])
           ELSE before

check_conflicts(map) == ConflictsUpTo(map, Len(map))

\* str(i) for i >= 0
RECURSIVE Decimal(_)
Decimal(i) ==
  LET d == <<"0","1","2","3","4","5","6","7","8","9">>[(i % 10) + 1]
  IN  IF i < 10 THEN <<d>> ELSE Decimal(i \div 10) \o <<d>>

\* f"{name}-{i}{ext}"
ResolvedName(new_name, i) ==
  LET parts == splitext(new_name)
  IN  parts[1] \o <<"-">> \o Decimal(i) \o parts[2]

\* the inner loop: the first entry whose old_name is old_filename gets the name
Rename1(map, old_filename, resolved_name) ==
  IF HasKey(map, old_filename)
  THEN LET k == CHOOSE k \in 1..Len(map) :
                  /\ map[k].old_name = old_filename
                  /\ \A j \in 1..(k - 1) : map[j].old_name # old_filename
       IN  [map EXCEPT ![k].new_name = resolved_name]
  ELSE map

\* for i, old_filename in enumerate(conflicting_files[1:], 2)
RECURSIVE ResolveOne(_, _, _, _)
ResolveOne(map, new_name, files, i) ==
  IF files = <<>> THEN map
  ELSE ResolveOne(Rename1(map, Head(files), ResolvedName(new_name, i)),
                  new_name, Tail(files), i + 1)

RECURSIVE resolve_conflicts(_, _)
resolve_conflicts(map, conflicts) ==
  IF conflicts = <<>> THEN map
  ELSE resolve_conflicts(
         ResolveOne(map, Head(conflicts).new_name,
                    Tail(Head(conflicts).conflicting_files), 2),
         Tail(conflicts))


(***************************************************************************)
(* State of one run of FileRenamer.run over a folder.                      *)
(***************************************************************************)
VARIABLES
  pc,                 \* position of run()
  fs,                 \* the *.html files of the folder other than index.html: name -> content
  index_exists,       \* whether index.html exists
  index,              \* the anchors of index.html, in document order
  sitemap_exists,     \* whether sitemap.xml exists
  sitemap,            \* the loc elements of sitemap.xml, in document order
  rename_map,         \* self.rename_map, in insertion order
  conflicts,          \* the list check_conflicts returned
  errors,             \* self.errors
  successful_renames, \* the list perform_renames builds
  backup_folder,      \* whether backup_arquivos_originais exists
  backup,             \* the files of the backup folder: name -> content
  create_backup,      \* the answer to the backup prompt
  proceed,            \* the answer to the first prompt
  update_refs,        \* the answer to the last prompt
  pos,                \* index of the entry the loop of perform_renames is at
  ops,                \* the mutations the run has made, in order
  vanished,           \* files removed from the folder by someone else during the prompts
  seen,               \* what each processed entry found: source there, destination free
  fs0,                \* the folder as the run found it
  index0,             \* index.html as the run found it
  sitemap0,           \* sitemap.xml as the run found it
  cl_hist,            \* a filename and the results of cleaning it again and again
  cl_url              \* the results of cleaning that filename as a link

vars == <<pc, fs, index_exists, index, sitemap_exists, sitemap,
          rename_map, conflicts, errors, successful_renames, backup_folder,
          backup, create_backup, proceed, update_refs, pos, ops, vanished,
          seen, fs0, index0, sitemap0, cl_hist, cl_url>>

docVars == <<index_exists, index, sitemap_exists, sitemap>>
planVars == <<rename_map, conflicts>>
ghostVars == <<fs0, index0, sitemap0, cl_hist, cl_url>>

Yes == {"s", "sim", "y", "yes"}
Answers == {"s", "n"}

\* FileRenamer.__init__ over a folder drawn from the bounded sets
Init ==
  /\ pc = "create_rename_map"
  /\ \E S \in SUBSET Names :
       /\ Cardinality(S) <= MaxFiles
       /\ fs = [n \in S |-> n]
  /\ index_exists \in BOOLEAN
  /\ index \in Documents(Anchors, MaxLinks)
  /\ ~index_exists => index = <<>>
  /\ sitemap_exists \in BOOLEAN
  /\ sitemap \in Documents(Locs, MaxLocs)
  /\ ~sitemap_exists => sitemap = <<>>
  /\ rename_map = <<>>
  /\ conflicts = <<>>
  /\ errors = <<>>
  /\ successful_renames = <<>>
  /\ backup_folder = FALSE
  /\ backup = <<>>
  /\ create_backup = FALSE
  /\ proceed = ""
  /\ update_refs = ""
  /\ pos = 0
  /\ ops = <<>>
  /\ vanished = {}
  /\ seen = <<>>
  /\ fs0 = fs
  /\ index0 = index
  /\ sitemap0 = sitemap
  /\ cl_hist = <<>>
  /\ cl_url = <<>>

\* Path.exists() of folder / name
Exists(name) == name \in DOMAIN fs \/ (name = INDEX_HTML /\ index_exists)

\* run(): self.create_rename_map(); the set all_referenced and the glob are iterated
\* in some order (html_files, the list scan_html_files fills, is read only here)
CreateRenameMap ==
  /\ pc = "create_rename_map"
  /\ LET all_referenced == extract_links_from_index(index_exists, index)
                             \cup extract_links_from_sitemap(sitemap_exists, sitemap)
     IN  \E refs \in Perms(all_referenced), html_files \in Perms(DOMAIN fs) :
           rename_map' =
                create_rename_map(refs, html_files, {n \in Range(refs) : Exists(n)})
  /\ pc' = "check_conflicts"
  /\ UNCHANGED <<fs, docVars, conflicts, errors, successful_renames, backup_folder,
                 backup, create_backup, proceed, update_refs, pos, ops, vanished,
                 seen, ghostVars>>

\* run(): conflicts = self.check_conflicts(); if conflicts: ...
CheckConflicts ==
  /\ pc = "check_conflicts"
  /\ conflicts' = check_conflicts(rename_map)
  /\ pc' = IF conflicts' # <<>> THEN "resolve_conflicts" ELSE "generate_report"
  /\ UNCHANGED <<fs, docVars, rename_map, errors, successful_renames,
                 backup_folder, backup, create_backup, proceed, update_refs, pos,
                 ops, vanished, seen, ghostVars>>

\* run(): self.resolve_conflicts(conflicts)
ResolveConflicts ==
  /\ pc = "resolve_conflicts"
  /\ rename_map' = resolve_conflicts(rename_map, conflicts)
  /\ pc' = "generate_report"
  /\ UNCHANGED <<fs, docVars, conflicts, errors, successful_renames,
                 backup_folder, backup, create_backup, proceed, update_refs, pos,
                 ops, vanished, seen, ghostVars>>

\* run(): self.generate_report(); if not self.rename_map: return
GenerateReport ==
  /\ pc = "generate_report"
  /\ pc' = IF rename_map = <<>> THEN "done" ELSE "ask_proceed"
  /\ UNCHANGED <<fs, docVars, planVars, errors, successful_renames, backup_folder,
                 backup, create_backup, proceed, update_refs, pos, ops, vanished,
                 seen, ghostVars>>

\* a mutation of ProceedConfirmed: the answer to the first prompt is ignored
ProceedAnyway(answer) == TRUE

\* "proceed in ['s', 'sim', 'y', 'yes']"
ProceedConfirmed(answer) == answer \in Yes

\* run(): proceed = input(...); if proceed not in [...]: return
AskProceed ==
  /\ pc = "ask_proceed"
  /\ \E answer \in Answers :
       /\ proceed' = answer
       /\ pc' = IF ProceedConfirmed(answer) THEN "ask_backup" ELSE "done"
  /\ UNCHANGED <<fs, docVars, planVars, errors, successful_renames, backup_folder,
                 backup, create_backup, update_refs, pos, ops, vanished, seen,
                 ghostVars>>

\* run(): backup_choice = input(...); create_backup = backup_choice in [...]
AskBackup ==
  /\ pc = "ask_backup"
  /\ \E answer \in Answers : create_backup' = (answer \in Yes)
  /\ pc' = "perform_renames"
  /\ UNCHANGED <<fs, docVars, planVars, errors, successful_renames, backup_folder,
                 backup, proceed, update_refs, pos, ops, vanished, seen, ghostVars>>

\* While the run waits at the backup prompt, a file is removed by someone else.
FileVanishes ==
  /\ pc = "ask_backup"
  /\ Cardinality(vanished) < MaxVanish
  /\ \E name \in DOMAIN fs :
       /\ fs' = [n \in DOMAIN fs \ {name} |-> fs[n]]
       /\ vanished' = vanished \cup {name}
  /\ UNCHANGED <<pc, docVars, planVars, errors, successful_renames, backup_folder,
                 backup, create_backup, proceed, update_refs, pos, ops, seen,
                 ghostVars>>


\* perform_renames(): the backup folder is made before the loop
PerformRenamesBegin ==
  /\ pc = "perform_renames"
  /\ IF create_backup
     THEN /\ backup_folder' = TRUE
          /\ ops' = Append(ops, "mkdir")
     ELSE UNCHANGED <<backup_folder, ops>>
  /\ successful_renames' = <<>>
  /\ pos' = 1
  /\ pc' = "rename_loop"
  /\ UNCHANGED <<fs, docVars, planVars, errors, backup, create_backup, proceed,
                 update_refs, vanished, seen, ghostVars>>

\* a mutation of RenameOutcome: the destination is not looked at before the rename
RenameOutcomeUnchecked(entry) ==
  IF ~Exists(entry.old_name) THEN "not_found" ELSE "renamed"

\* what the body of the loop does with an entry
RenameOutcome(entry) ==
  IF ~Exists(entry.old_name) THEN "not_found"
  ELSE IF Exists(entry.new_name) /\ entry.new_name # entry.old_name THEN "destination_exists"
  ELSE "renamed"

\* a mutation of NextPos: a failing entry ends the loop ("break" for "continue")
NextPosAbort(p, outcome) ==
  IF outcome = "renamed" THEN p + 1 ELSE Len(rename_map) + 1

\* the loop goes on after an entry ("continue", or the end of the body)
NextPos(p, outcome) == p + 1

\* old_file.rename(new_file)
RenameFile(files, old, new) ==
  [n \in (DOMAIN files \ {old}) \cup {new} |-> IF n = new THEN files[old] ELSE files[n]]

\* a mutation of CopyFile: nothing is put in the backup folder
CopyNothing(dir, name, content) == dir

\* shutil.copy2(old_file, backup_folder / old_file.name)
CopyFile(dir, name, content) ==
  [n \in DOMAIN dir \cup {name} |-> IF n = name THEN content ELSE dir[n]]

\* perform_renames(): one iteration of the loop over self.rename_map
RenameStep ==
  /\ pc = "rename_loop"
  /\ pos <= Len(rename_map)
  /\ LET entry == rename_map[pos]
         outcome == RenameOutcome(entry)
     IN  /\ seen' = Append(seen, [src |-> Exists(entry.old_name),
                                  free |-> ~(Exists(entry.new_name)
                                             /\ entry.new_name # entry.old_name)])
         /\ pos' = NextPos(pos, outcome)
         /\ IF outcome = "renamed"
            THEN /\ IF create_backup /\ backup_folder
                    THEN /\ backup' = CopyFile(backup, entry.old_name, fs[entry.old_name])
                         /\ ops' = ops \o <<"copy", "rename">>
                    ELSE /\ ops' = Append(ops, "rename")
                         /\ UNCHANGED backup
                 /\ fs' = RenameFile(fs, entry.old_name, entry.new_name)
                 /\ successful_renames' =
                      Append(successful_renames,
                             [old |-> entry.old_name, new |-> entry.new_name,
                              referenced |-> entry.referenced])
                 /\ UNCHANGED errors
            ELSE /\ errors' = Append(errors, [kind |-> outcome, name |-> entry.old_name])
                 /\ UNCHANGED <<fs, backup, ops, successful_renames>>
  /\ UNCHANGED <<pc, docVars, planVars, backup_folder, create_backup, proceed,
                 update_refs, vanished, ghostVars>>

\* perform_renames() returns; run(): if successful_renames: ...
PerformRenamesReturn ==
  /\ pc = "rename_loop"
  /\ pos > Len(rename_map)
  /\ pc' = IF successful_renames # <<>> THEN "ask_update_refs" ELSE "done"
  /\ UNCHANGED <<fs, docVars, planVars, errors, successful_renames, backup_folder,
                 backup, create_backup, proceed, update_refs, pos, ops, vanished,
                 seen, ghostVars>>

\* run(): update_refs = input(...); if update_refs in [...]: self.update_references(...)
AskUpdateRefs ==
  /\ pc = "ask_update_refs"
  /\ \E answer \in Answers :
       /\ update_refs' = answer
       /\ pc' = IF answer \in Yes THEN "update_index" ELSE "done"
  /\ UNCHANGED <<fs, docVars, planVars, errors, successful_renames, backup_folder,
                 backup, create_backup, proceed, pos, ops, vanished, seen, ghostVars>>

\* content.replace(f'href="{old}"', f'href="{new}"') and the same with single
\* quotes, on one anchor: the literal covers the whole attribute value
ReplaceHref(anchor, rename) ==
  IF anchor.quote \in {"\"", "'"} /\ anchor.href = rename.old
  THEN [anchor EXCEPT !.href = rename.new]
  ELSE anchor

\* the loop over successful_renames on the text of index.html
RECURSIVE RewriteIndex(_, _)
RewriteIndex(doc, renames) ==
  IF renames = <<>> THEN doc
  ELSE RewriteIndex([i \in 1..Len(doc) |-> ReplaceHref(doc[i], Head(renames))],
                    Tail(renames))

\* how the try block of a document ends: without an exception, or with one raised
\* by open, read or ET.parse before anything is written
IOOutcomes == {"ok", "error"}

\* self.errors.append(f"Erro ao atualizar index.html: {e}"), and the same for sitemap.xml
UpdateError(document) == [kind |-> "update_error", name |-> document]

\* update_references(): index.html
UpdateIndex ==
  /\ pc = "update_index"
  /\ IF index_exists
     THEN \E outcome \in IOOutcomes :
            IF outcome = "ok"
            THEN /\ index' = RewriteIndex(index, successful_renames)
                 /\ ops' = Append(ops, "write_index")
                 /\ UNCHANGED errors
            ELSE /\ errors' = Append(errors, UpdateError(INDEX_HTML))
                 /\ UNCHANGED <<index, ops>>
     ELSE UNCHANGED <<index, ops, errors>>
  /\ pc' = "update_sitemap"
  /\ UNCHANGED <<fs, index_exists, sitemap_exists, sitemap, planVars,
                 successful_renames, backup_folder, backup, create_backup, proceed,
                 update_refs, pos, vanished, seen, ghostVars>>

\* the loop over successful_renames on the text of one loc element
RECURSIVE RewriteLocText(_, _)
RewriteLocText(text, renames) ==
  IF renames = <<>> THEN text
  ELSE RewriteLocText(IF Contains(text, Head(renames).old)
                      THEN Replace(text, Head(renames).old, Head(renames).new)
                      ELSE text,
                      Tail(renames))

\* one pass of update_references over the loc elements found with or without namespace
RewriteLocs(doc, withNs, renames) ==
  [i \in 1..Len(doc) |->
     IF doc[i].ns = withNs /\ doc[i].text # <<>>
     THEN [doc[i] EXCEPT !.text = RewriteLocText(doc[i].text, renames)]
     ELSE doc[i]]

\* the flag "updated" of a loc text: it contained some old name when its turn came
\* (the text is as it was until the first replacement)
RECURSIVE TextUpdated(_, _)
TextUpdated(text, renames) ==
  IF renames = <<>> THEN FALSE
  ELSE \/ Contains(text, Head(renames).old)
       \/ TextUpdated(text, Tail(renames))

\* the flag "updated" after one pass
PassUpdated(doc, withNs, renames) ==
  \E i \in 1..Len(doc) :
    doc[i].ns = withNs /\ doc[i].text # <<>> /\ TextUpdated(doc[i].text, renames)

\* a mutation of SitemapUpdated: the tree is written whether or not a loc changed
SitemapUpdatedAlways(doc, renames) == TRUE

\* the flag "updated" after both passes
SitemapUpdated(doc, renames) ==
  PassUpdated(doc, TRUE, renames) \/ PassUpdated(doc, FALSE, renames)

\* the tree after both passes; the second pass runs only if the first updated nothing
RewriteSitemap(doc, renames) ==
  IF PassUpdated(doc, TRUE, renames)
  THEN RewriteLocs(doc, TRUE, renames)
  ELSE RewriteLocs(doc, FALSE, renames)

\* update_references(): sitemap.xml
UpdateSitemap ==
  /\ pc = "update_sitemap"
  /\ IF sitemap_exists
     THEN \E outcome \in IOOutcomes :
            IF outcome = "error"
            THEN /\ errors' = Append(errors, UpdateError(SITEMAP_XML))
                 /\ UNCHANGED <<sitemap, ops>>
            ELSE IF SitemapUpdated(sitemap, successful_renames)
            THEN /\ sitemap' = RewriteSitemap(sitemap, successful_renames)
                 /\ ops' = Append(ops, "write_sitemap")
                 /\ UNCHANGED errors
            ELSE UNCHANGED <<sitemap, ops, errors>>
     ELSE UNCHANGED <<sitemap, ops, errors>>
  /\ pc' = "done"
  /\ UNCHANGED <<fs, index_exists, index, sitemap_exists, planVars,
                 successful_renames, backup_folder, backup, create_backup, proceed,
                 update_refs, pos, vanished, seen, ghostVars>>

Next ==
  \/ CreateRenameMap
  \/ CheckConflicts
  \/ ResolveConflicts
  \/ GenerateReport
  \/ AskProceed
  \/ AskBackup
  \/ FileVanishes
  \/ PerformRenamesBegin
  \/ RenameStep
  \/ PerformRenamesReturn
  \/ AskUpdateRefs
  \/ UpdateIndex
  \/ UpdateSitemap

Spec == Init /\ [][Next]_vars

(***************************************************************************)
(* clean_filename as a function of every short string over CleanAlphabet.  *)
(***************************************************************************)
CleanAlphabet == {"A", "a", "Aacute", " ", "!", "-", "_", ".", "2"}

InitClean ==
  /\ pc = "clean_filename"
  /\ cl_hist \in {<<s>> : s \in SeqsUpTo(CleanAlphabet, MaxLen)}
  /\ fs = <<>>
  /\ index_exists = FALSE
  /\ index = <<>>
  /\ sitemap_exists = FALSE
  /\ sitemap = <<>>
  /\ rename_map = <<>>
  /\ conflicts = <<>>
  /\ errors = <<>>
  /\ successful_renames = <<>>
  /\ backup_folder = FALSE
  /\ backup = <<>>
  /\ create_backup = FALSE
  /\ proceed = ""
  /\ update_refs = ""
  /\ pos = 0
  /\ ops = <<>>
  /\ vanished = {}
  /\ seen = <<>>
  /\ fs0 = <<>>
  /\ index0 = <<>>
  /\ sitemap0 = <<>>
  /\ cl_url = <<>>

\* the filename is cleaned, and the result is cleaned again
CleanAgain ==
  /\ pc = "clean_filename"
  /\ Len(cl_hist) < 3
  /\ cl_hist' = Append(cl_hist, clean_filename(cl_hist[Len(cl_hist)]))
  /\ UNCHANGED <<pc, fs, docVars, planVars, errors, successful_renames, backup_folder,
                 backup, create_backup, proceed, update_refs, pos, ops, vanished,
                 seen, fs0, index0, sitemap0, cl_url>>

\* the same filename, as it stands in a link, is cleaned by LinkCleaner.clean_url
CleanAsLink ==
  /\ pc = "clean_filename"
  /\ cl_url = <<>>
  /\ cl_url' = <<clean_url(cl_hist[1])>>
  /\ UNCHANGED <<pc, fs, docVars, planVars, errors, successful_renames, backup_folder,
                 backup, create_backup, proceed, update_refs, pos, ops, vanished,
                 seen, fs0, index0, sitemap0, cl_hist>>

NextClean ==
  \/ CleanAgain
  \/ CleanAsLink

SpecClean == InitClean /\ [][NextClean]_vars


(***************************************************************************)
(* Properties.                                                             *)
(***************************************************************************)
\* all_referenced of the folder as the run found it
AllReferenced0 ==
  extract_links_from_index(index_exists, index0)
    \cup extract_links_from_sitemap(sitemap_exists, sitemap0)

\* the plan is complete: create_rename_map, check_conflicts, resolve_conflicts are over
Planned == pc \notin {"create_rename_map", "check_conflicts", "resolve_conflicts", "clean_filename"}

\* perform_renames has returned
Applied == pos >= 1 /\ pc \in {"ask_update_refs", "update_index", "update_sitemap", "done"}

\* update_references has returned
Rewritten == pc = "done" /\ update_refs \in Yes

\* the name the plan gives a file: its entry's new_name, its own name without an entry
PlannedName(name) ==
  IF HasKey(rename_map, name)
  THEN rename_map[CHOOSE i \in 1..Len(rename_map) : rename_map[i].old_name = name].new_name
  ELSE name

\* C1: cleaning a filename a second time gives the result of cleaning it once,
\* for every filename, those whose stem cleans to nothing included.
C1_CleanIdempotent ==
  Len(cl_hist) = 3 => cl_hist[3] = cl_hist[2]

\* C2: once conflicts are resolved, among the plan entries whose names clean to the
\* same stem.ext the first in plan order has stem.ext and the i-th has stem-i.ext.
C2_NumberedInOrder ==
  Planned =>
    \A n \in 1..Len(rename_map) :
      LET cleaned == clean_filename(rename_map[n].old_name)
          i == Cardinality({j \in 1..n : clean_filename(rename_map[j].old_name) = cleaned})
      IN  rename_map[n].new_name = IF i = 1 THEN cleaned ELSE ResolvedName(cleaned, i)

\* C3: two referenced files on disk, one with an unclean name and one whose name is
\* already the cleaned name of the first, are planned as that name and that name
\* with -2.
C3_CleanTwinNumbered ==
  Planned =>
    \A f, g \in AllReferenced0 \cap DOMAIN fs0 :
      (f # g /\ clean_filename(f) = g /\ clean_filename(g) = g)
        => {PlannedName(f), PlannedName(g)} = {g, ResolvedName(g, 2)}

\* C4: when perform_renames starts, no two entries of the plan have the same
\* new_name.
C4_PlanConflictFree ==
  pc = "perform_renames" =>
    \A i, j \in 1..Len(rename_map) :
      i # j => rename_map[i].new_name # rename_map[j].new_name

\* the new name of the successful rename of old
NewNameOf(old) ==
  successful_renames[CHOOSE i \in 1..Len(successful_renames) :
                       successful_renames[i].old = old].new

WasRenamed(old) == \E i \in 1..Len(successful_renames) : successful_renames[i].old = old

\* the errors recorded by update_references
UpdateErrors == SelectSeq(errors, LAMBDA e : e.kind = "update_error")

\* the errors recorded by perform_renames
RenameErrors == SelectSeq(errors, LAMBDA e : e.kind # "update_error")

\* C5: after a run whose renames all succeed and whose rewrite is accepted, every
\* anchor and every loc that the scanner resolved to a renamed file names the new
\* file in its last path segment.
C5_ReferencesFollowRenames ==
  (Rewritten /\ Len(successful_renames) = Len(rename_map) /\ UpdateErrors = <<>>) =>
    /\ \A i \in 1..Len(index0) :
         WasRenamed(LinkFilename(index0[i].href))
           => basename(UrlPath(index[i].href)) = NewNameOf(LinkFilename(index0[i].href))
    /\ \A i \in 1..Len(sitemap0) :
         WasRenamed(LinkFilename(sitemap0[i].text))
           => basename(UrlPath(sitemap[i].text)) = NewNameOf(LinkFilename(sitemap0[i].text))

\* C6: after update_references, for every successful rename no anchor has the old
\* name as its href, each anchor that had it has the new name, and every loc whose
\* text contained the old name contains the new name in its place.
C6_RewriteConsistent ==
  (Rewritten /\ UpdateErrors = <<>>) =>
    \A r \in 1..Len(successful_renames) :
      LET old == successful_renames[r].old
          new == successful_renames[r].new
      IN  /\ \A i \in 1..Len(index) :
               /\ index[i].href # old
               /\ index0[i].href = old => index[i].href = new
          /\ \A i \in 1..Len(sitemap) :
               Contains(sitemap0[i].text, old)
                 => /\ ~Contains(sitemap[i].text, old)
                    /\ Contains(sitemap[i].text, new)

\* the entries of the plan, up to n, that found their source and a free destination
RECURSIVE ExpectedRenames(_)
ExpectedRenames(n) ==
  IF n = 0 THEN <<>>
  ELSE IF seen[n].src /\ seen[n].free
       THEN Append(ExpectedRenames(n - 1),
                   [old |-> rename_map[n].old_name, new |-> rename_map[n].new_name,
                    referenced |-> rename_map[n].referenced])
       ELSE ExpectedRenames(n - 1)

\* the errors of the entries of the plan, up to n, that did not
RECURSIVE ExpectedErrors(_)
ExpectedErrors(n) ==
  IF n = 0 THEN <<>>
  ELSE IF seen[n].src /\ seen[n].free
       THEN ExpectedErrors(n - 1)
       ELSE Append(ExpectedErrors(n - 1),
                   [kind |-> IF seen[n].src THEN "destination_exists" ELSE "not_found",
                    name |-> rename_map[n].old_name])

Writes == {"write_index", "write_sitemap"}

\* C8: nothing is renamed, backed up or written before the user confirms, and
\* nothing at all if the user declines; the mutations come in the order backup
\* folder, renames (each after its copy), index.html, sitemap.xml; and a document is
\* written only after a successful rename and a confirmation of the rewrite.
C8_ConfirmationGates ==
  /\ ~(proceed \in Yes)
       => /\ ops = <<>>
          /\ fs = fs0
          /\ index = index0
          /\ sitemap = sitemap0
          /\ ~backup_folder
          /\ backup = <<>>
  /\ ops # <<>> => (Planned /\ rename_map # <<>>)
  /\ \A i \in 1..Len(ops) :
       /\ ops[i] = "mkdir" => i = 1
       /\ ops[i] = "copy" => (i < Len(ops) /\ ops[i + 1] = "rename")
       /\ ops[i] \in Writes
            => /\ update_refs \in Yes
               /\ successful_renames # <<>>
               /\ \E j \in 1..(i - 1) : ops[j] = "rename"
               /\ \A j \in (i + 1)..Len(ops) : ops[j] = "write_sitemap" /\ ops[i] = "write_index"
  /\ (index # index0 \/ sitemap # sitemap0)
       => (update_refs \in Yes /\ successful_renames # <<>>)

\* a finished run that the user confirmed at every prompt: the backup folder, a copy
\* and a rename, then index.html and sitemap.xml
C8_Witness ==
  /\ pc = "done"
  /\ proceed \in Yes
  /\ update_refs \in Yes
  /\ ops = <<"mkdir", "copy", "rename", "write_index", "write_sitemap">>

\* the user declined at the first prompt with a plan of renames on the table
C8_DeclinedReached ==
  /\ pc = "done"
  /\ proceed = "n"
  /\ rename_map # <<>>
  /\ ops = <<>>

\* the filenames of the model that clean_filename leaves as they are
CleanNames == {n \in Names \cup LinkNames : clean_filename(n) = n}

\* every physical and every referenced filename is its own cleaned form
AllClean ==
  /\ DOMAIN fs0 \subseteq CleanNames
  /\ AllReferenced0 \subseteq CleanNames

\* C9: when every physical and every referenced filename is already clean, the plan
\* is empty and the run ends without a prompt, a rename, a backup or a write.
C9_NoOpRun ==
  (AllClean /\ pc # "clean_filename") =>
    /\ rename_map = <<>>
    /\ pc \in {"create_rename_map", "check_conflicts", "generate_report", "done"}
    /\ ops = <<>>
    /\ fs = fs0
    /\ index = index0
    /\ sitemap = sitemap0
    /\ ~backup_folder
    /\ backup = <<>>

\* a finished run over a folder of clean files referenced by clean links
C9_Witness ==
  /\ AllClean
  /\ pc = "done"
  /\ fs0 # <<>>
  /\ AllReferenced0 \cap DOMAIN fs0 # {}

\* the old_name -> new_name mapping of a plan
MappingOf(map) == {<<map[i].old_name, map[i].new_name>> : i \in 1..Len(map)}

\* the resolved plan for given iteration orders
PlanFor(refs, html_files, existing) ==
  LET map == create_rename_map(refs, html_files, existing)
  IN  resolve_conflicts(map, check_conflicts(map))

\* C10: the resolved plan maps each old name to the same new name whatever order
\* the referenced set and the directory listing are iterated in.
C10_PlanReproducible ==
  pc = "generate_report" =>
    \A refs \in Perms(AllReferenced0), html_files \in Perms(DOMAIN fs0) :
      MappingOf(PlanFor(refs, html_files, AllReferenced0 \cap DOMAIN fs0))
        = MappingOf(rename_map)


\* a stem as clean_filename is to leave it
ValidStem(stem) ==
  /\ \A i \in 1..Len(stem) : IsLower(stem[i]) \/ stem[i] \in Digits \/ stem[i] \in {"-", "_"}
  /\ stem # <<>> => (stem[1] # "-" /\ stem[Len(stem)] # "-")
  /\ \A i \in 1..(Len(stem) - 1) : ~(stem[i] = "-" /\ stem[i + 1] = "-")

\* C11: every output of clean_filename is a stem of characters a-z, 0-9, - and _
\* with no hyphen at either end and no two hyphens in a row, followed by the
\* extension os.path.splitext finds in the input, unchanged.
C11_StemAndExtension ==
  \A k \in 2..Len(cl_hist) :
    LET ext == splitext(cl_hist[k - 1])[2]
        out == cl_hist[k]
    IN  /\ Len(ext) <= Len(out)
        /\ SubSeq(out, Len(out) - Len(ext) + 1, Len(out)) = ext
        /\ ValidStem(SubSeq(out, 1, Len(out) - Len(ext)))

\* a filename with an accent, a space, a hyphen to strip and an extension was cleaned
C11_Witness ==
  /\ Len(cl_hist) >= 2
  /\ cl_hist[1] = <<"Aacute", " ", "-", ".">>
  /\ cl_hist[2] = <<"a", ".">>

\* a filename as clean_url takes it: no path separator, no percent-encoding
BareFilename(f) == \A i \in 1..Len(f) : f[i] \notin {"/", "%"}

\* C15: a bare filename is cleaned by clean_filename to what clean_url makes of it,
\* a dot inside the stem or an upper-case extension included.
C15_SameAsLinkCleaning ==
  (Len(cl_hist) >= 2 /\ cl_url # <<>> /\ BareFilename(cl_hist[1]))
    => cl_hist[2] = cl_url[1]

\* perform_renames has been entered
InApply ==
  pos >= 1 /\ pc \in {"rename_loop", "ask_update_refs", "update_index", "update_sitemap", "done"}

\* C12: with a backup requested, at every point of perform_renames and after it,
\* every entry of the success list has a copy under its old name in the backup
\* folder with the content the file had, made before the rename, and the content
\* is still in the folder of the site: the copy did not take the source away.
C12_BackupBeforeRename ==
  (create_backup /\ InApply) =>
    /\ backup_folder
    /\ \A i \in 1..Len(successful_renames) :
         LET old == successful_renames[i].old
         IN  /\ old \in DOMAIN backup
             /\ backup[old] = fs0[old]
             /\ \E n \in DOMAIN fs : fs[n] = fs0[old]
    /\ \A k \in 1..Len(ops) : ops[k] = "rename" => (k > 1 /\ ops[k - 1] = "copy")

\* in the middle of the loop, a file is renamed and backed up and an entry is left
C12_Witness ==
  /\ pc = "rename_loop"
  /\ create_backup
  /\ pos <= Len(rename_map)
  /\ Len(successful_renames) >= 1
  /\ successful_renames[1].old \notin DOMAIN fs

\* the physical HTML files whose cleaned name differs from their name
DirtyFiles == {n \in DOMAIN fs0 : n # INDEX_HTML /\ n \notin CleanNames}

\* C13: once create_rename_map has run, rename_map has exactly one entry for every
\* physical HTML file other than index.html whose cleaned name differs from its
\* name and none for any other file; when it returns, an entry is marked
\* referenced exactly when its old name is in the referenced set, and its new
\* name is the cleaned name.
C13_OneEntryPerDirtyFile ==
  (pc \notin {"create_rename_map", "clean_filename"}) =>
    /\ {rename_map[i].old_name : i \in 1..Len(rename_map)} = DirtyFiles
    /\ \A i, j \in 1..Len(rename_map) :
         rename_map[i].old_name = rename_map[j].old_name => i = j
    /\ pc = "check_conflicts"
         => \A i \in 1..Len(rename_map) :
              /\ rename_map[i].referenced = (rename_map[i].old_name \in AllReferenced0)
              /\ rename_map[i].new_name = clean_filename(rename_map[i].old_name)

\* the plan was just built for a folder with a referenced dirty file, an
\* unreferenced dirty file and a clean file
C13_Witness ==
  /\ pc = "check_conflicts"
  /\ Len(rename_map) = 2
  /\ Cardinality(DOMAIN fs0) = 3
  /\ \E i, j \in 1..2 : rename_map[i].referenced /\ ~rename_map[j].referenced

\* the files the run could find at apply time, by content
Surviving == DOMAIN fs0 \ vanished

\* C14: perform_renames never overwrites or loses a file: an entry whose destination
\* exists is skipped and recorded, and at every point of the run the folder holds
\* as many HTML files as before, with the same contents, under whatever names.
C14_NothingLost ==
  (pc # "clean_filename") =>
    /\ Cardinality(DOMAIN fs) = Cardinality(Surviving)
    /\ {fs[n] : n \in DOMAIN fs} = Surviving
    /\ \A i \in 1..Len(seen) :
         (seen[i].src /\ ~seen[i].free) =>
           /\ \E k \in 1..Len(errors) :
                errors[k] = [kind |-> "destination_exists", name |-> rename_map[i].old_name]
           /\ ~WasRenamed(rename_map[i].old_name)
           /\ rename_map[i].old_name \in DOMAIN fs
           /\ fs[rename_map[i].old_name] = rename_map[i].old_name

\* a plan with the same new_name twice was applied: the first took the name, the
\* second found it taken and was skipped
C14_Witness ==
  /\ Applied
  /\ \E i, j \in 1..Len(rename_map) :
       /\ i < j
       /\ rename_map[i].new_name = rename_map[j].new_name
       /\ WasRenamed(rename_map[i].old_name)
       /\ seen[j].src /\ ~seen[j].free
  /\ \E k \in 1..Len(errors) : errors[k].kind = "destination_exists"

\* some loc of the sitemap as the run found it contains the old name of a
\* successful rename
LocHit ==
  \E i \in 1..Len(sitemap0), r \in 1..Len(successful_renames) :
    Contains(sitemap0[i].text, successful_renames[r].old)

Recorded(error) == \E k \in 1..Len(errors) : errors[k] = error

Written(op) == \E k \in 1..Len(ops) : ops[k] = op

\* C16: sitemap.xml is written only if some loc had a substitution, and is left as
\* it was if no loc contains an old name; a failure on either document is recorded
\* in errors, leaves every renamed file under its new name, and does not keep
\* update_references from trying the other document.
C16_SitemapWriteAndFailures ==
  (pc # "clean_filename") =>
    /\ Written("write_sitemap") => LocHit
    /\ ~LocHit => sitemap = sitemap0
    /\ Rewritten =>
         /\ index_exists => (Written("write_index") \/ Recorded(UpdateError(INDEX_HTML)))
         /\ (sitemap_exists /\ LocHit)
              => (Written("write_sitemap") \/ Recorded(UpdateError(SITEMAP_XML)))
         /\ index # RewriteIndex(index0, successful_renames)
              => Recorded(UpdateError(INDEX_HTML))
         /\ (LocHit /\ sitemap # RewriteSitemap(sitemap0, successful_renames))
              => Recorded(UpdateError(SITEMAP_XML))
         /\ \A r \in 1..Len(successful_renames) :
              /\ successful_renames[r].new \in DOMAIN fs
              /\ fs[successful_renames[r].new] = successful_renames[r].old

\* the rewrite of index.html failed and was recorded, and sitemap.xml was rewritten
\* all the same
C16_Witness ==
  /\ pc = "done"
  /\ Recorded(UpdateError(INDEX_HTML))
  /\ ~Recorded(UpdateError(SITEMAP_XML))
  /\ Written("write_sitemap")
  /\ sitemap # sitemap0
  /\ successful_renames # <<>>

=============================================================================
